---- MODULE Spec2Model ----
(***************************************************************************)
(* Model of quinn-proto/src/connection/assembler.rs: the Assembler that    *)
(* reassembles a stream from out-of-order, overlapping fragments.          *)
(*                                                                         *)
(* A Bytes value is the sequence of its byte values.  The BinaryHeap is    *)
(* the sequence of its Buffers in pop order (Buffer's Ord: lowest offset   *)
(* first, longer bytes first at equal offsets).  The heap gives no order   *)
(* among Buffers that compare equal, so every operation that sifts takes   *)
(* a flag `tie` saying on which side of its equals a Buffer lands.         *)
(***************************************************************************)
EXTENDS Integers, Sequences, FiniteSets, TLC

\* ------------------------------------------------------------ bounds
StreamLen == 3      \* the logical stream has offsets 0 .. StreamLen-1
MaxLen == 2         \* longest inserted fragment
MaxFrags == 3       \* most Buffers in the heap, one mode of use
MaxFragsAny == 2    \* most Buffers in the heap, every call allowed
MaxBuffered == 6    \* inserts stop when buffered would pass this
MaxRead == 2        \* bounded max_length values are 0 .. MaxRead

\* ------------------------------------------------------------ inputs
Offsets == 0 .. (StreamLen - 1)

\* usize::MAX as the tests pass it to read: larger than any fragment
usize_MAX == 2 ^ 30

MaxLengths == (0 .. MaxRead) \cup {usize_MAX}

\* allocation_size - bytes.len() of an inserted fragment: tight, or a slice
\* of a larger allocation
Slacks == {0, 2048}

\* The byte of the logical stream at offset k, and a conflicting byte a
\* misbehaving peer may send for the same offset
StreamByte(k) == k + 1
OtherByte(k) == k + 11

Content(v, k) == IF v = 0 THEN StreamByte(k) ELSE OtherByte(k)

\* The payload of a fragment of n bytes at offset o, of content variant v
Payload(v, o, n) == [i \in 1 .. n |-> Content(v, o + i - 1)]

Max(a, b) == IF a >= b THEN a ELSE b
Min(a, b) == IF a <= b THEN a ELSE b

\* ------------------------------------------------------------ Bytes
\* Bytes::advance(n): drop the first n bytes
advance(bytes, n) == SubSeq(bytes, n + 1, Len(bytes))

\* Bytes::split_to(n): the first n bytes (the rest stays, see advance)
split_to(bytes, n) == SubSeq(bytes, 1, n)

\* ------------------------------------------------------------ Option
None == <<>>
Some(x) == <<x>>

\* ------------------------------------------------------------ Chunk, Buffer
Chunk(offset, bytes) == [offset |-> offset, bytes |-> bytes]

Buffer(offset, bytes, size, allocation_size) ==
    [offset |-> offset, bytes |-> bytes, size |-> size,
     allocation_size |-> allocation_size]

\* Ord without `.reverse()`: the highest offset leaves the heap first
Greater_unreversed(a, b) ==
    \/ a.offset > b.offset
    \/ a.offset = b.offset /\ Len(a.bytes) > Len(b.bytes)

\* impl Ord for Buffer: a > b, so that a leaves the max-heap before b
Greater(a, b) ==
    \/ a.offset < b.offset
    \/ a.offset = b.offset /\ Len(a.bytes) > Len(b.bytes)

\* impl PartialEq for Buffer / Ordering::Equal
Equal(a, b) == a.offset = b.offset /\ Len(a.bytes) = Len(b.bytes)

\* BinaryHeap::push (and the sift when a PeekMut is dropped): b joins the
\* pop order after everything greater; tie puts it before or after its equals
push(data, b, tie) ==
    LET before == {i \in 1 .. Len(data) :
                      Greater(data[i], b) \/ (~tie /\ Equal(data[i], b))}
        n == Cardinality(before)
    IN  SubSeq(data, 1, n) \o <<b>> \o SubSeq(data, n + 1, Len(data))

\* ------------------------------------------------------------ RangeSet
\* crate::range_set::RangeSet as the set of the offsets it holds.
\* RangeSet::insert(start..end)
range_insert(recvd, start, end) == recvd \cup (start .. (end - 1))

\* The end of the run of held offsets that starts at k, cut at end
RECURSIVE run_end(_, _, _)
run_end(recvd, k, end) ==
    IF k < end /\ k \in recvd THEN run_end(recvd, k + 1, end) ELSE k

\* The ranges RangeSet::replace(start..end) yields: the parts of start..end
\* that were already held, in ascending order
RECURSIVE duplicates(_, _, _)
duplicates(recvd, start, end) ==
    IF start >= end THEN <<>>
    ELSE IF start \in recvd
         THEN LET e == run_end(recvd, start, end)
              IN  <<[start |-> start, end |-> e]>> \o duplicates(recvd, e, end)
         ELSE duplicates(recvd, start + 1, end)

\* ------------------------------------------------------------ Assembler
Ordered == "Ordered"
Unordered == "Unordered"

\* Assembler::new(): State::Ordered, an empty heap, zero counters.
\* recvd is the payload of State::Unordered, empty while Ordered.
new ==
    [state |-> Ordered, recvd |-> {}, data |-> <<>>, buffered |-> 0,
     allocated |-> 0, bytes_read |-> 0]

Ok == "Ok"
IllegalOrderedRead == "IllegalOrderedRead"

\* The offsets of the Buffers of the heap, as ensure_ordering records them
RECURSIVE recvd_of(_, _)
recvd_of(recvd, data) ==
    IF data = <<>> THEN recvd
    ELSE LET chunk == Head(data)
         IN  recvd_of(range_insert(recvd, chunk.offset,
                                   chunk.offset + Len(chunk.bytes)),
                      Tail(data))

\* ensure_ordering without `recvd.insert(0..self.bytes_read)`
ensure_ordering_unread(self, ordered) ==
    IF ordered /\ self.state # Ordered
    THEN [self |-> self, ret |-> IllegalOrderedRead]
    ELSE IF ~ordered /\ self.state = Ordered
         THEN [self |-> [self EXCEPT
                   !.state = Unordered,
                   !.recvd = recvd_of({}, self.data)],
               ret |-> Ok]
         ELSE [self |-> self, ret |-> Ok]

\* Assembler::ensure_ordering
ensure_ordering(self, ordered) ==
    IF ordered /\ self.state # Ordered
    THEN [self |-> self, ret |-> IllegalOrderedRead]
    ELSE IF ~ordered /\ self.state = Ordered
         THEN [self |-> [self EXCEPT
                   !.state = Unordered,
                   !.recvd = recvd_of(range_insert({}, 0, self.bytes_read),
                                      self.data)],
               ret |-> Ok]
         ELSE [self |-> self, ret |-> Ok]

\* next_is_after with the comparison off by one: a chunk that starts at the
\* read index counts as lying after it
next_is_after_or_at(peek, bytes_read) == peek.offset >= bytes_read

\* read, ordered: `chunk.offset > self.bytes_read`, a gap before the next chunk
next_is_after(peek, bytes_read) == peek.offset > bytes_read

\* next_is_useless with < for <=: a chunk that ends at the read index stays
next_is_useless_strict(peek, bytes_read) ==
    peek.offset + Len(peek.bytes) < bytes_read

\* read, ordered: the next chunk ends at or before the read index
next_is_useless(peek, bytes_read) ==
    peek.offset + Len(peek.bytes) <= bytes_read

\* useful without `chunk.offset += start`: the bytes are cut, the offset stays
useful_offset_kept(peek, bytes_read) ==
    LET start == bytes_read - peek.offset
    IN  IF start > 0 THEN [peek EXCEPT !.bytes = advance(@, start)] ELSE peek

\* read, ordered: the next chunk with the bytes below the read index cut off
useful(peek, bytes_read) ==
    LET start == bytes_read - peek.offset
    IN  IF start > 0
        THEN [peek EXCEPT !.bytes = advance(@, start), !.offset = @ + start]
        ELSE peek

\* take that counts the bytes split off out of buffered at once, and the
\* whole size again when the rest of the chunk is popped
take_split_counted(self, chunk, rest, max_length, tie) ==
    IF max_length < Len(chunk.bytes)
    THEN [self |-> [self EXCEPT
              !.bytes_read = @ + max_length,
              !.buffered = @ - max_length,
              !.data = push(rest,
                            [chunk EXCEPT !.offset = @ + max_length,
                                          !.bytes = advance(@, max_length)],
                            tie)],
          ret |-> Some(Chunk(chunk.offset, split_to(chunk.bytes, max_length)))]
    ELSE [self |-> [self EXCEPT
              !.bytes_read = @ + Len(chunk.bytes),
              !.buffered = @ - chunk.size,
              !.allocated = @ - chunk.allocation_size,
              !.data = rest],
          ret |-> Some(Chunk(chunk.offset, chunk.bytes))]

\* take without `self.bytes_read += max_length` where the chunk is split
take_split_uncounted(self, chunk, rest, max_length, tie) ==
    IF max_length < Len(chunk.bytes)
    THEN [self |-> [self EXCEPT
              !.data = push(rest,
                            [chunk EXCEPT !.offset = @ + max_length,
                                          !.bytes = advance(@, max_length)],
                            tie)],
          ret |-> Some(Chunk(chunk.offset, split_to(chunk.bytes, max_length)))]
    ELSE [self |-> [self EXCEPT
              !.bytes_read = @ + Len(chunk.bytes),
              !.buffered = @ - chunk.size,
              !.allocated = @ - chunk.allocation_size,
              !.data = rest],
          ret |-> Some(Chunk(chunk.offset, chunk.bytes))]

\* read: the result, given the next chunk and the rest of the heap
take(self, chunk, rest, max_length, tie) ==
    IF max_length < Len(chunk.bytes)
    THEN [self |-> [self EXCEPT
              !.bytes_read = @ + max_length,
              !.data = push(rest,
                            [chunk EXCEPT !.offset = @ + max_length,
                                          !.bytes = advance(@, max_length)],
                            tie)],
          ret |-> Some(Chunk(chunk.offset, split_to(chunk.bytes, max_length)))]
    ELSE [self |-> [self EXCEPT
              !.bytes_read = @ + Len(chunk.bytes),
              !.buffered = @ - chunk.size,
              !.allocated = @ - chunk.allocation_size,
              !.data = rest],
          ret |-> Some(Chunk(chunk.offset, chunk.bytes))]

\* Assembler::read
RECURSIVE read(_, _, _, _)
read(self, max_length, ordered, tie) ==
    IF self.data = <<>> THEN [self |-> self, ret |-> None]
    ELSE
    LET peek == Head(self.data)
        rest == Tail(self.data)
    IN
    IF ordered
    THEN IF next_is_after(peek, self.bytes_read)
         THEN [self |-> self, ret |-> None]
         ELSE IF next_is_useless(peek, self.bytes_read)
         THEN read([self EXCEPT !.buffered = @ - peek.size,
                                !.allocated = @ - peek.allocation_size,
                                !.data = rest],
                   max_length, ordered, tie)
         ELSE take(self, useful(peek, self.bytes_read), rest, max_length, tie)
    ELSE take(self, peek, rest, max_length, tie)

\* get_from that forgets the overlap: the whole chunk is appended
get_whole(bytes, overlap) == bytes

\* defragment: chunk.bytes.get(overlap..), nothing when overlap passes the end
get_from(bytes, overlap) ==
    IF overlap <= Len(bytes) THEN advance(bytes, overlap) ELSE <<>>

\* One pass of the loop of defragment over the drained Buffers, lowest
\* offset first (old.into_sorted_vec().into_iter().rev()).  st holds the
\* loop's offset and buffer and the heap being rebuilt.
RECURSIVE defragment_loop(_, _, _)
defragment_loop(old, st, tie) ==
    IF old = <<>> THEN st
    ELSE
    LET chunk == Head(old)
        end == st.offset + Len(st.buffer)
    IN
    IF chunk.size < chunk.allocation_size
    THEN IF end >= chunk.offset
         THEN \* end.checked_sub(chunk.offset) is Some(overlap)
              LET overlap == end - chunk.offset
              IN  defragment_loop(Tail(old),
                      [st EXCEPT !.buffer = @ \o get_from(chunk.bytes, overlap)],
                      tie)
         ELSE \* a gap: flush the buffer and start again at chunk
              defragment_loop(Tail(old),
                  [offset |-> chunk.offset,
                   buffer |-> chunk.bytes,
                   data |-> push(st.data,
                                 Buffer(st.offset, st.buffer, Len(st.buffer),
                                        Len(st.buffer)),
                                 tie)],
                  tie)
    ELSE defragment_loop(Tail(old), [st EXCEPT !.data = push(@, chunk, tie)], tie)

\* defragment without the push of what the buffer holds when the loop ends
defragment_unflushed(self, tie) ==
    LET st == defragment_loop(self.data,
                  [offset |-> Head(self.data).offset, buffer |-> <<>>,
                   data |-> <<>>],
                  tie)
    IN  [self EXCEPT !.data = st.data, !.allocated = self.buffered]

\* Assembler::defragment, called with data buffered
defragment(self, tie) ==
    LET st == defragment_loop(self.data,
                  [offset |-> Head(self.data).offset, buffer |-> <<>>,
                   data |-> <<>>],
                  tie)
    IN  [self EXCEPT
            !.data = push(st.data,
                          Buffer(st.offset, st.buffer, Len(st.buffer),
                                 Len(st.buffer)),
                          tie),
            !.allocated = self.buffered]

\* `n as f32`: n rounded to 24 significant bits, ties to even
RECURSIVE ulp(_, _)
ulp(n, u) == IF n < 16777216 * u THEN u ELSE ulp(n, 2 * u)

as_f32(n) ==
    LET u == ulp(n, 1)
        q == n \div u
        r == n % u
    IN  IF 2 * r > u \/ (2 * r = u /\ q % 2 = 1) THEN (q + 1) * u ELSE q * u

\* over_allocation > threshold, both doubled so that buffered * 1.5 is whole;
\* the f32 product is 3 * buffered rounded to 24 bits, at half the scale
DefragFloor == 4096

over_allocated(self) ==
    LET over_allocation == as_f32(self.allocated - self.buffered)
        threshold2 == Max(as_f32(3 * as_f32(self.buffered)), 2 * DefragFloor)
    IN  2 * over_allocation > threshold2

\* The loop of insert over the duplicates found in State::Unordered.
\* st holds offset and bytes as the loop changes them, and the assembler.
RECURSIVE insert_dedup(_, _, _, _)
insert_dedup(dups, st, allocation_size, tie) ==
    IF dups = <<>> THEN st
    ELSE
    LET duplicate == Head(dups)
        new_prefix == duplicate.start > st.offset
        bytes == split_to(st.bytes, duplicate.start - st.offset)
        size == Len(bytes)
        pushed ==
            IF new_prefix
            THEN [offset |-> duplicate.start,
                  bytes |-> advance(st.bytes, duplicate.start - st.offset),
                  self |-> [st.self EXCEPT
                      !.buffered = @ + size,
                      !.allocated = @ + allocation_size,
                      !.data = push(@, Buffer(st.offset, bytes, size,
                                              allocation_size), tie)]]
            ELSE st
    IN  insert_dedup(Tail(dups),
            [pushed EXCEPT !.bytes = advance(@, duplicate.end - pushed.offset),
                           !.offset = duplicate.end],
            allocation_size, tie)

\* insert_rest without `self.buffered += size`
insert_rest_uncounted(self, offset, bytes, allocation_size, tie) ==
    IF bytes = <<>> THEN self
    ELSE
    LET size == Len(bytes)
        pushed == [self EXCEPT
            !.allocated = @ + allocation_size,
            !.data = push(@, Buffer(offset, bytes, size, allocation_size), tie)]
    IN  IF over_allocated(pushed) THEN defragment(pushed, tie) ELSE pushed

\* The end of insert: push what is left and defragment when over-allocated
insert_rest(self, offset, bytes, allocation_size, tie) ==
    IF bytes = <<>> THEN self
    ELSE
    LET size == Len(bytes)
        pushed == [self EXCEPT
            !.buffered = @ + size,
            !.allocated = @ + allocation_size,
            !.data = push(@, Buffer(offset, bytes, size, allocation_size), tie)]
    IN  IF over_allocated(pushed) THEN defragment(pushed, tie) ELSE pushed

\* insert without the trimming of a fragment that straddles bytes_read in
\* State::Ordered: it is pushed whole
insert_ordered_untrimmed(self, offset, bytes, allocation_size, tie) ==
    IF self.state = Unordered
    THEN LET end == offset + Len(bytes)
             st == insert_dedup(duplicates(self.recvd, offset, end),
                       [offset |-> offset, bytes |-> bytes,
                        self |-> [self EXCEPT
                            !.recvd = range_insert(@, offset, end)]],
                       allocation_size, tie)
         IN  insert_rest(st.self, st.offset, st.bytes, allocation_size, tie)
    ELSE IF offset + Len(bytes) <= self.bytes_read
    THEN self
    ELSE insert_rest(self, offset, bytes, allocation_size, tie)

\* insert without the discarding of duplicate data: the range is recorded
\* and the whole fragment is pushed
insert_no_dedup(self, offset, bytes, allocation_size, tie) ==
    insert_rest([self EXCEPT
                    !.recvd = IF self.state = Unordered
                              THEN range_insert(@, offset, offset + Len(bytes))
                              ELSE @],
                offset, bytes, allocation_size, tie)

\* Assembler::insert, called with bytes.len() <= allocation_size
insert(self, offset, bytes, allocation_size, tie) ==
    IF self.state = Unordered
    THEN LET end == offset + Len(bytes)
             st == insert_dedup(duplicates(self.recvd, offset, end),
                       [offset |-> offset, bytes |-> bytes,
                        self |-> [self EXCEPT
                            !.recvd = range_insert(@, offset, end)]],
                       allocation_size, tie)
         IN  insert_rest(st.self, st.offset, st.bytes, allocation_size, tie)
    ELSE IF offset < self.bytes_read
    THEN IF offset + Len(bytes) <= self.bytes_read
         THEN self
         ELSE LET diff == self.bytes_read - offset
              IN  insert_rest(self, offset + diff, advance(bytes, diff),
                              allocation_size, tie)
    ELSE insert_rest(self, offset, bytes, allocation_size, tie)

\* Assembler::set_bytes_read
set_bytes_read(self, new_read) == [self EXCEPT !.bytes_read = new_read]

\* clear without the reset of the counters
clear_data_only(self) == [self EXCEPT !.data = <<>>]

\* clear as a reset to Assembler::default() that keeps bytes_read
clear_to_default(self) == [new EXCEPT !.bytes_read = self.bytes_read]

\* clear that also rewinds bytes_read
clear_rewinding(self) ==
    [self EXCEPT !.data = <<>>, !.buffered = 0, !.allocated = 0,
                 !.bytes_read = 0]

\* Assembler::clear
clear(self) == [self EXCEPT !.data = <<>>, !.buffered = 0, !.allocated = 0]

\* ------------------------------------------------------------ state
VARIABLES
    state,        \* Assembler.state: Ordered or Unordered
    recvd,        \* the recvd of State::Unordered
    data,         \* Assembler.data, in pop order
    buffered,     \* Assembler.buffered
    allocated,    \* Assembler.allocated
    bytes_read,   \* Assembler.bytes_read
    last,         \* the last call made, its arguments and what it returned
    first,        \* per stream offset, the first byte ever inserted there (0: none)
    out           \* the stream offsets some read has returned in a chunk

vars == <<state, recvd, data, buffered, allocated, bytes_read, last, first, out>>

\* The assembler as one value, for the operators above
Self ==
    [state |-> state, recvd |-> recvd, data |-> data, buffered |-> buffered,
     allocated |-> allocated, bytes_read |-> bytes_read]

Becomes(self) ==
    /\ state' = self.state
    /\ recvd' = self.recvd
    /\ data' = self.data
    /\ buffered' = self.buffered
    /\ allocated' = self.allocated
    /\ bytes_read' = self.bytes_read

\* The stream offsets of a chunk or Buffer
Range(c) == c.offset .. (c.offset + Len(c.bytes) - 1)

Init ==
    /\ state = new.state
    /\ recvd = new.recvd
    /\ data = new.data
    /\ buffered = new.buffered
    /\ allocated = new.allocated
    /\ bytes_read = new.bytes_read
    /\ last = [op |-> "new"]
    /\ first = [k \in Offsets |-> 0]
    /\ out = {}

\* ------------------------------------------------------------ actions
\* Either side of its equals a sifted Buffer may land
Ties == BOOLEAN

\* insert(o, bytes, allocation_size) of n bytes of content variant v, sliced
\* from an allocation of n + slack bytes; frags bounds the heap
InsertCall(v, o, n, slack, frags) ==
    \E after \in {insert(Self, o, Payload(v, o, n), n + slack, tie) :
                     tie \in Ties} :
        /\ Len(after.data) <= frags
        /\ after.buffered <= MaxBuffered
        /\ Becomes(after)
        /\ last' = [op |-> "insert"]

\* read(max_length, ordered)
ReadCall(max_length, ordered) ==
    \E r \in {read(Self, max_length, ordered, tie) : tie \in Ties} :
        /\ Becomes(r.self)
        /\ last' = [op |-> "read", ordered |-> ordered, ret |-> r.ret]

\* ensure_ordering(ordered)
EnsureOrderingCall(ordered) ==
    \E r \in {ensure_ordering(Self, ordered)} :
        /\ Becomes(r.self)
        /\ last' = [op |-> "ensure_ordering", ordered |-> ordered,
                    ret |-> r.ret]

\* set_bytes_read(new)
SetBytesReadCall(new_read) ==
    /\ Becomes(set_bytes_read(Self, new_read))
    /\ last' = [op |-> "set_bytes_read"]

\* clear()
ClearCall ==
    /\ Becomes(clear(Self))
    /\ last' = [op |-> "clear"]

\* The fragments drawn: n bytes at offset o inside the stream, of content
\* variant v, with slack unused bytes in their allocation.  An empty
\* fragment is drawn once per offset.
Fragment(v, o, n, slack) ==
    /\ o + n <= StreamLen
    /\ n = 0 => (v = 0 /\ slack = 0)

\* What the observers first and out record of an insert and of a read
FirstAfter(o, bytes) ==
    [k \in Offsets |->
        IF first[k] = 0 /\ k >= o /\ k < o + Len(bytes)
        THEN bytes[k - o + 1] ELSE first[k]]

OutAfter(ret) == IF ret = None THEN out ELSE out \cup Range(ret[1])

\* ---------------------------------------------- every call, in any order
Insert ==
    \E o \in Offsets, n \in 0 .. MaxLen, slack \in Slacks :
        /\ Fragment(0, o, n, slack)
        /\ InsertCall(0, o, n, slack, MaxFragsAny)
        /\ UNCHANGED <<first, out>>

Read ==
    \E max_length \in MaxLengths, ordered \in BOOLEAN :
        /\ ReadCall(max_length, ordered)
        /\ UNCHANGED <<first, out>>

EnsureOrdering ==
    \E ordered \in BOOLEAN :
        /\ EnsureOrderingCall(ordered)
        /\ UNCHANGED <<first, out>>

SetBytesRead ==
    \E new_read \in 0 .. StreamLen :
        /\ SetBytesReadCall(new_read)
        /\ UNCHANGED <<first, out>>

Clear ==
    /\ ClearCall
    /\ UNCHANGED <<first, out>>

Next ==
    \/ Insert
    \/ Read
    \/ EnsureOrdering
    \/ SetBytesRead
    \/ Clear

Spec == Init /\ [][Next]_vars

\* ---------------------------------------------- ordered use of one stream
\* Only insert and ordered reads, every fragment a piece of the one stream
InsertStream ==
    \E o \in Offsets, n \in 0 .. MaxLen, slack \in Slacks :
        /\ Fragment(0, o, n, slack)
        /\ InsertCall(0, o, n, slack, MaxFrags)
        /\ first' = FirstAfter(o, Payload(0, o, n))
        /\ out' = out

ReadOrderedOf(max_length) ==
    /\ ReadCall(max_length, TRUE)
    /\ out' = OutAfter(last'.ret)
    /\ first' = first

ReadOrdered == \E max_length \in MaxLengths : ReadOrderedOf(max_length)

NextOrdered == InsertStream \/ ReadOrdered

SpecOrdered == Init /\ [][NextOrdered]_vars

\* The consumer keeps reading: an ordered read that asks for at least one
\* byte is made again and again
ReadSome == \E max_length \in MaxLengths \ {0} : ReadOrderedOf(max_length)

FairOrdered == SpecOrdered /\ WF_vars(ReadSome)

\* ---------------------------------------------- unordered use from the start
\* ensure_ordering(false) on the new assembler, then inserts of either
\* content variant and unordered reads
EnterUnordered ==
    /\ last.op = "new"
    /\ EnsureOrderingCall(FALSE)
    /\ UNCHANGED <<first, out>>

InsertUnordered ==
    \E v \in {0, 1}, o \in Offsets, n \in 0 .. MaxLen, slack \in Slacks :
        /\ state = Unordered
        /\ Fragment(v, o, n, slack)
        /\ InsertCall(v, o, n, slack, MaxFrags)
        /\ first' = FirstAfter(o, Payload(v, o, n))
        /\ out' = out

ReadUnordered ==
    \E max_length \in MaxLengths :
        /\ state = Unordered
        /\ ReadCall(max_length, FALSE)
        /\ out' = OutAfter(last'.ret)
        /\ first' = first

NextUnordered == EnterUnordered \/ InsertUnordered \/ ReadUnordered

SpecUnordered == Init /\ [][NextUnordered]_vars

\* ---------------------------------------------- the caller's discipline
\* Reads in the mode in effect, a switch to unordered reads at any time,
\* fragments of either content variant
InsertAny ==
    \E v \in {0, 1}, o \in Offsets, n \in 0 .. MaxLen, slack \in Slacks :
        /\ Fragment(v, o, n, slack)
        /\ InsertCall(v, o, n, slack, MaxFragsAny)
        /\ UNCHANGED <<first, out>>

ReadInMode ==
    \E max_length \in MaxLengths :
        /\ ReadCall(max_length, state = Ordered)
        /\ UNCHANGED <<first, out>>

Switch ==
    /\ EnsureOrderingCall(FALSE)
    /\ UNCHANGED <<first, out>>

NextInMode == InsertAny \/ ReadInMode \/ Switch

SpecInMode == Init /\ [][NextInMode]_vars

\* ---------------------------------------------- ordered use, then unordered
\* Pieces of the one stream are inserted and read in the mode in effect,
\* with a switch to unordered reads at any time; what the reads deliver is
\* observed
ReadObserved ==
    \E max_length \in MaxLengths :
        /\ ReadCall(max_length, state = Ordered)
        /\ out' = OutAfter(last'.ret)
        /\ first' = first

NextSwitched == InsertStream \/ ReadObserved \/ Switch

SpecSwitched == Init /\ [][NextSwitched]_vars

\* ------------------------------------------------------------ properties
\* The chunk a read returned, and whether it returned one
Returned == last.op = "read" /\ last.ret # None
ReturnedNone == last.op = "read" /\ last.ret = None
TheChunk == last.ret[1]

\* The bytes of c are those of the logical stream at c's offsets
OfStream(c) == c.bytes = Payload(0, c.offset, Len(c.bytes))

\* C1: with only inserts of pieces of one stream and ordered reads, every
\* chunk an ordered read returns starts at the bytes_read of before the call,
\* holds the stream's bytes for its offsets and leaves bytes_read at its end;
\* so the offsets delivered so far are exactly 0 .. bytes_read - 1, each once.
OrderPreservation ==
    [][/\ Returned' =>
            /\ TheChunk'.offset = bytes_read
            /\ OfStream(TheChunk')
            /\ bytes_read' = TheChunk'.offset + Len(TheChunk'.bytes)
            /\ Range(TheChunk') \cap out = {}
       /\ out' = 0 .. (bytes_read' - 1)]_vars

\* An ordered read returned a chunk that does not start the stream, cut by
\* max_length from a longer Buffer
OrderPreservationWitness ==
    /\ Returned
    /\ last.ordered
    /\ TheChunk.offset > 0
    /\ Len(TheChunk.bytes) > 0
    /\ data # <<>>
    /\ data[1].offset = bytes_read
    /\ Len(data[1].bytes) < data[1].size

\* Every offset of the stream has been inserted
AllInserted == \A k \in Offsets : first[k] # 0

\* C2: once every byte of the stream has been inserted, the ordered reads
\* that ask for at least one byte come to return None with bytes_read at the
\* end of the stream and every offset delivered.
CompleteDelivery ==
    AllInserted ~> (ReturnedNone /\ bytes_read = StreamLen /\ out = Offsets)

\* The stream was inserted in overlapping pieces, read to its end, and the
\* read after that returned None
CompleteDeliveryWitness ==
    /\ AllInserted
    /\ ReturnedNone
    /\ bytes_read = StreamLen
    /\ out = Offsets
    /\ buffered > 0

\* The bytes of c are, offset by offset, the first ever inserted there
FirstSeen(c) == \A k \in Range(c) : c.bytes[k - c.offset + 1] = first[k]

\* The Buffers of the heap hold first-seen bytes of offsets never delivered,
\* and no two of them share an offset
StoredNew ==
    /\ \A i \in DOMAIN data : Range(data[i]) \cap out = {} /\ FirstSeen(data[i])
    /\ \A i, j \in DOMAIN data : i # j => Range(data[i]) \cap Range(data[j]) = {}

\* C3: on an assembler switched to unordered mode while new, no offset is
\* returned in two chunks, every chunk holds the first-seen bytes of its
\* offsets, and what inserts leave in the heap is only what was never seen.
OverlapResolution ==
    [][/\ Returned' => (Range(TheChunk') \cap out = {} /\ FirstSeen(TheChunk'))
       /\ StoredNew']_vars

\* The middle offset surfaced last, with bytes of the conflicting variant,
\* after both its neighbours had been delivered with the stream's bytes
OverlapResolutionWitness ==
    /\ state = Unordered
    /\ Returned
    /\ TheChunk = Chunk(1, <<OtherByte(1)>>)
    /\ out = Offsets
    /\ first[0] = StreamByte(0)
    /\ first[2] = StreamByte(2)

\* The bytes of a chunk, each with its stream offset
Flat(c) == [i \in 1 .. Len(c.bytes) |-> <<c.offset + i - 1, c.bytes[i]>>]

\* What reads with max_length usize::MAX deliver until one returns None
RECURSIVE Drain(_, _, _)
Drain(self, ordered, tie) ==
    LET r == read(self, usize_MAX, ordered, tie)
    IN  IF r.ret = None THEN <<>>
        ELSE Flat(r.ret[1]) \o Drain(r.self, ordered, tie)

\* What is delivered, in the mode in effect, after fragment (v, o, n, slack)
\* has been inserted `times` times
RECURSIVE InsertedTimes(_, _, _, _, _, _, _)
InsertedTimes(self, times, v, o, n, slack, tie) ==
    IF times = 0 THEN self
    ELSE InsertedTimes(insert(self, o, Payload(v, o, n), n + slack, tie),
                       times - 1, v, o, n, slack, tie)

DeliveredAfter(times, v, o, n, slack, tie) ==
    Drain(InsertedTimes(Self, times, v, o, n, slack, tie), state = Ordered, tie)

\* Every Buffer of the heap holds the bytes of the logical stream
Agrees == \A i \in DOMAIN data : OfStream(data[i])

\* No Buffer of the heap starts where another does or where a fragment
\* inserted at o would be pushed: Ord then fixes the pop order, whatever
\* the heap does with Buffers that compare equal
OrderFixed(o) ==
    /\ \A i, j \in DOMAIN data : i # j => data[i].offset # data[j].offset
    /\ \A i \in DOMAIN data : data[i].offset # Max(o, bytes_read)

Covered(d) == UNION {Range(d[i]) : i \in DOMAIN d}

\* A Buffer that is a slice of a larger allocation
Wasteful(b) == b.size < b.allocation_size

\* C5: in a state with data buffered, all of it bytes of the one stream,
\* ordered reads until None deliver the same bytes at the same offsets with
\* and without a defragment first; defragment leaves the offsets held, the
\* byte at each of them, buffered, bytes_read and the mode as they are.
DefragmentationTransparency ==
    (data # <<>> /\ Agrees) =>
        \A t1 \in Ties, t2 \in Ties :
            LET after == defragment(Self, t1)
            IN  /\ Drain(after, TRUE, t2) = Drain(Self, TRUE, t2)
                /\ Covered(after.data) = Covered(data)
                /\ \A i \in DOMAIN after.data : OfStream(after.data[i])
                /\ after.buffered = buffered
                /\ after.bytes_read = bytes_read
                /\ after.state = state
                /\ after.recvd = recvd

\* Three Buffers are held, two overlapping slices of larger allocations
\* among them, part of the lowest already read; defragment merges Buffers
\* and the reads that follow deliver bytes
DefragmentationTransparencyWitness ==
    /\ Len(data) = 3
    /\ bytes_read > 0
    /\ \E i, j \in DOMAIN data :
           /\ i # j
           /\ Wasteful(data[i]) /\ Wasteful(data[j])
           /\ Range(data[i]) \cap Range(data[j]) # {}
    /\ \E i \in DOMAIN data : ~Wasteful(data[i])
    /\ Len(defragment(Self, TRUE).data) < 3
    /\ Len(Drain(Self, TRUE, TRUE)) >= 2

\* C6: when an insert has returned, allocated - buffered is at most
\* max(1.5 * buffered, 4096) (both sides doubled).
AllocationBound ==
    last.op = "insert" =>
        2 * (allocated - buffered) <= Max(3 * buffered, 2 * DefragFloor)

\* C7 as stated: an unordered read leaves bytes_read as it was, whatever it
\* returns.
UnorderedReadKeepsBytesRead ==
    [][(last'.op = "read" /\ ~last'.ordered) => bytes_read' = bytes_read]_vars

\* The length of what a read returned, 0 for None
ReturnedLen(l) == IF l.ret = None THEN 0 ELSE Len(l.ret[1].bytes)

\* C7 amended: an unordered read advances bytes_read by the length of the
\* chunk it returns, max_length for a split-off prefix and the Buffer's
\* length for a whole Buffer, and leaves it unchanged when it returns None.
UnorderedReadAdvances ==
    [][(last'.op = "read" /\ ~last'.ordered) =>
            bytes_read' = bytes_read + ReturnedLen(last')]_vars

\* In unordered mode a read has split a prefix off a Buffer, which stays
\* in the heap, and bytes_read has moved
UnorderedReadAdvancesWitness ==
    /\ state = Unordered
    /\ Returned
    /\ ~last.ordered
    /\ Len(TheChunk.bytes) > 0
    /\ data # <<>>
    /\ Len(data[1].bytes) < data[1].size
    /\ data[1].offset = TheChunk.offset + Len(TheChunk.bytes)
    /\ bytes_read > 0

\* C8: in unordered mode ensure_ordering(true) returns IllegalOrderedRead
\* and changes no field; no call brings the mode back to Ordered;
\* ensure_ordering with the mode in effect returns Ok and changes no field.
OneWayMode ==
    [][/\ state = Unordered => state' = Unordered
       /\ (last'.op = "ensure_ordering" /\ last'.ordered /\ state = Unordered)
              => (last'.ret = IllegalOrderedRead /\ Self' = Self)
       /\ (last'.op = "ensure_ordering" /\ (last'.ordered <=> state = Ordered))
              => (last'.ret = Ok /\ Self' = Self)]_vars

\* ensure_ordering(true) has failed on an unordered assembler that holds
\* data and has delivered some
OneWayModeWitness ==
    /\ state = Unordered
    /\ last = [op |-> "ensure_ordering", ordered |-> TRUE,
               ret |-> IllegalOrderedRead]
    /\ data # <<>>
    /\ bytes_read > 0

\* C9: no call but set_bytes_read lowers bytes_read.
MonotonicBytesRead ==
    [][last'.op # "set_bytes_read" => bytes_read' >= bytes_read]_vars

\* clear was called after bytes had been read, on buffered data or not
MonotonicBytesReadWitness ==
    /\ last.op = "clear"
    /\ bytes_read > 0
    /\ state = Unordered

\* Buffer b holds the stream offset at
Contains(b, at) == b.offset <= at /\ at < b.offset + Len(b.bytes)

\* The Buffers of d that reach past the stream offset at, in pop order
RECURSIVE Past(_, _)
Past(d, at) ==
    IF d = <<>> THEN <<>>
    ELSE IF Head(d).offset + Len(Head(d).bytes) > at
         THEN <<Head(d)>> \o Past(Tail(d), at)
         ELSE Past(Tail(d), at)

\* C10: an ordered read returns None exactly when no Buffer of the heap
\* holds the offset bytes_read; then bytes_read stays and the Buffers that
\* reach past bytes_read stay in the heap as they are.
GapBlocks ==
    [][(last'.op = "read" /\ last'.ordered) =>
          /\ (last'.ret = None) <=>
                 ~\E i \in DOMAIN data : Contains(data[i], bytes_read)
          /\ last'.ret = None =>
                 /\ bytes_read' = bytes_read
                 /\ Past(data', bytes_read) = Past(data, bytes_read)]_vars

\* An ordered read that followed earlier deliveries has returned None with
\* a Buffer waiting beyond a gap
GapBlocksWitness ==
    /\ ReturnedNone
    /\ last.ordered
    /\ bytes_read > 0
    /\ Len(data) = 1
    /\ data[1].offset > bytes_read
    /\ state = Ordered

\* The heap without the Buffers an ordered read pops as useless before it
\* reaches one that is not
RECURSIVE DropStale(_, _)
DropStale(d, at) ==
    IF d # <<>> /\ next_is_useless(Head(d), at)
    THEN DropStale(Tail(d), at) ELSE d

\* The heap as a read of the given kind finds it at the Buffer it serves
Served(ordered) == IF ordered THEN DropStale(data, bytes_read) ELSE data

\* The usable length of Buffer f for a read of the given kind: what of it
\* lies at or past bytes_read for an ordered read, all of it otherwise
Usable(f, ordered) ==
    IF ordered
    THEN f.offset + Len(f.bytes) - Max(f.offset, bytes_read)
    ELSE Len(f.bytes)

\* What the claim C11 says of read(max_length, ordered) in the current state
\* when it returns a chunk
SplitsAt(max_length, ordered, t1, t2) ==
    LET r == read(Self, max_length, ordered, t1)
    IN  r.ret # None =>
            LET c == r.ret[1]
                f == Head(Served(ordered))
                L == Usable(f, ordered)
            IN  /\ Len(c.bytes) = Min(max_length, L)
                /\ c.offset + L = f.offset + Len(f.bytes)
                /\ IF L > max_length
                   THEN /\ \E i \in DOMAIN r.self.data :
                               /\ r.self.data[i].offset = c.offset + max_length
                               /\ Len(r.self.data[i].bytes) = L - max_length
                               /\ c.bytes \o r.self.data[i].bytes
                                      = advance(f.bytes, Len(f.bytes) - L)
                        /\ Len(r.self.data) = Len(Served(ordered))
                        /\ \A m2 \in MaxLengths :
                               LET r2 == read(r.self, m2, ordered, t2)
                               IN  /\ r2.ret # None
                                   /\ r2.ret[1].offset = c.offset + max_length
                   ELSE r.self.data = Tail(Served(ordered))

\* C11: in every reachable state, a read in the mode in effect that returns
\* a chunk returns min(max_length, L) bytes, L the usable length of the
\* lowest Buffer after the stale ones and its stale prefix are dropped; if
\* L > max_length the rest of the Buffer stays in the heap, its offset moved
\* on by max_length, and the next read of the same kind returns a chunk that
\* starts right after the one returned; otherwise the Buffer leaves the heap.
MaxLengthSplitting ==
    \A max_length \in MaxLengths, t1 \in Ties, t2 \in Ties :
        SplitsAt(max_length, state = Ordered, t1, t2)

\* C12: clear, in any reachable state, leaves the heap empty and buffered
\* and allocated at 0, leaves bytes_read, the mode and recvd as they were,
\* and a read of either kind right after it returns None.
ClearEffect ==
    [][last'.op = "clear" =>
          /\ data' = <<>>
          /\ buffered' = 0
          /\ allocated' = 0
          /\ bytes_read' = bytes_read
          /\ state' = state
          /\ recvd' = recvd
          /\ \A max_length \in MaxLengths, ordered \in BOOLEAN, tie \in Ties :
                 read(Self', max_length, ordered, tie).ret = None]_vars

\* clear was called in unordered mode after bytes had been read, with more
\* offsets seen than bytes read: data was dropped unread
ClearEffectWitness ==
    /\ last.op = "clear"
    /\ state = Unordered
    /\ bytes_read > 0
    /\ Cardinality(recvd) > bytes_read
    /\ data = <<>>
    /\ buffered = 0

\* C13: in every reachable state, no Buffer of the heap has empty bytes.
NoEmptyFragments == \A i \in DOMAIN data : Len(data[i].bytes) > 0

\* The sums over the Buffers of a heap of bytes.len(), size, allocation_size
RECURSIVE SumLen(_)
SumLen(d) == IF d = <<>> THEN 0 ELSE Len(Head(d).bytes) + SumLen(Tail(d))

RECURSIVE SumSize(_)
SumSize(d) == IF d = <<>> THEN 0 ELSE Head(d).size + SumSize(Tail(d))

RECURSIVE SumAllocation(_)
SumAllocation(d) ==
    IF d = <<>> THEN 0 ELSE Head(d).allocation_size + SumAllocation(Tail(d))

\* C14: in every reachable state, buffered is the sum of the lengths of the
\* bytes of the Buffers of the heap, and the size of each Buffer is the
\* length of its bytes.
BufferedExact ==
    /\ buffered = SumLen(data)
    /\ \A i \in DOMAIN data : data[i].size = Len(data[i].bytes)

\* C15: in every reachable state, allocated is the sum of the
\* allocation_size of the Buffers of the heap; with an empty heap allocated
\* and buffered are 0.
AllocatedExact ==
    /\ allocated = SumAllocation(data)
    /\ data = <<>> => (allocated = 0 /\ buffered = 0)

\* C16: in every reachable state allocated >= buffered, and the counters
\* cover what the Buffers of the heap can still take off them: buffered is
\* at least the sum of their size and allocated at least the sum of their
\* allocation_size, so that no subtraction in read or insert goes below 0.
CounterSafety ==
    /\ allocated >= buffered
    /\ buffered >= SumSize(data)
    /\ allocated >= SumAllocation(data)
    /\ buffered >= 0
    /\ allocated >= 0

\* An unordered read has returned a chunk and left part of a Buffer in the
\* heap, after a defragmentation that merged overlapping Buffers: buffered
\* counts more than the Buffers of the heap will take off it
CounterSafetyWitness ==
    /\ Returned
    /\ state = Unordered
    /\ data # <<>>
    /\ buffered > SumSize(data)
    /\ Len(data[1].bytes) < data[1].size

\* C17: ensure_ordering(false) in Ordered mode sets recvd to 0 .. bytes_read-1
\* together with the offsets of every Buffer of the heap; in Unordered mode
\* recvd holds the offsets of every Buffer of the heap and of every chunk an
\* unordered read returns, and no call takes an offset out of recvd.
SeenSet ==
    [][/\ (last'.op = "ensure_ordering" /\ ~last'.ordered /\ state = Ordered)
              => /\ state' = Unordered
                 /\ recvd' = (0 .. (bytes_read - 1)) \cup Covered(data)
       /\ state' = Unordered
              => /\ Covered(data') \subseteq recvd'
                 /\ (Returned' /\ ~last'.ordered)
                        => Range(TheChunk') \subseteq recvd'
       /\ state = Unordered => recvd \subseteq recvd']_vars

\* After a switch to unordered mode with bytes read and data buffered, an
\* unordered read has returned a chunk that does not start the stream and
\* clear has not been called since: recvd holds offsets read in order,
\* offsets delivered out of order and offsets still buffered
SeenSetWitness ==
    /\ state = Unordered
    /\ Returned
    /\ ~last.ordered
    /\ TheChunk.offset > 0
    /\ Len(TheChunk.bytes) > 0
    /\ 0 \in recvd
    /\ data # <<>>
    /\ Covered(data) # {}
    /\ recvd # Covered(data) \cup Range(TheChunk)

\* The maximal runs a .. b of consecutive offsets of the set S
Runs(S) ==
    {r \in S \X S :
        /\ r[1] <= r[2]
        /\ (r[1] .. r[2]) \subseteq S
        /\ (r[1] - 1) \notin S
        /\ (r[2] + 1) \notin S}

\* How many times Buffer b is in the heap d
Count(d, b) == Cardinality({i \in DOMAIN d : d[i] = b})

\* The offsets of o .. o+n-1 that recvd does not hold
Unseen(o, n) == (o .. (o + n - 1)) \ recvd

\* The Buffers an unordered insert of bytes at o with allocation_size is to
\* add: one per run of unseen offsets, with the bytes inserted for them
Added(o, bytes, allocation_size) ==
    {Buffer(r[1], SubSeq(bytes, r[1] - o + 1, r[2] - o + 1), r[2] - r[1] + 1,
            allocation_size) : r \in Runs(Unseen(o, Len(bytes)))}

\* The heap `after` is the heap data with the Buffers of the set added
Gains(after, added) ==
    \A b \in added \cup {data[i] : i \in DOMAIN data}
               \cup {after[i] : i \in DOMAIN after} :
        Count(after, b) = Count(data, b) + (IF b \in added THEN 1 ELSE 0)

\* The fragments an insert is tried with in a state: any piece of the
\* stream, of either content variant, tight or a slice
Tried(v, o, n, slack) ==
    /\ v \in {0, 1} /\ o \in Offsets /\ n \in 0 .. StreamLen
    /\ slack \in Slacks
    /\ Fragment(v, o, n, slack)

\* C18 as stated: in Unordered mode, insert adds to the heap one Buffer per
\* run of offsets of the fragment that recvd did not hold, with the bytes
\* inserted for those offsets and the caller's allocation_size; buffered
\* grows by the number of those offsets; nothing changes when there is
\* none; the Buffers added share no offset with each other or with the heap.
UnorderedInsertEffect ==
    state = Unordered =>
        \A v \in {0, 1}, o \in Offsets, n \in 0 .. StreamLen, slack \in Slacks,
           tie \in Ties :
            Tried(v, o, n, slack) =>
                LET bytes == Payload(v, o, n)
                    after == insert(Self, o, bytes, n + slack, tie)
                    added == Added(o, bytes, n + slack)
                IN  /\ Gains(after.data, added)
                    /\ after.buffered = buffered + Cardinality(Unseen(o, n))
                    /\ Unseen(o, n) = {} =>
                           /\ after.data = data
                           /\ after.buffered = buffered
                           /\ after.allocated = allocated
                    /\ Unseen(o, n) \cap Covered(data) = {}

\* Whether an unordered insert of n bytes at o with allocation_size ends in
\* a defragmentation: its last byte is unseen, so that the end of insert is
\* reached with bytes left, and the counters after the pushes are past the
\* threshold
Defragments(o, n, allocation_size) ==
    /\ n > 0
    /\ (o + n - 1) \in Unseen(o, n)
    /\ over_allocated(
           [Self EXCEPT
               !.buffered = @ + Cardinality(Unseen(o, n)),
               !.allocated = @ + allocation_size
                                   * Cardinality(Runs(Unseen(o, n)))])

\* What C18 amended says of the assembler `after` an unordered insert of
\* bytes at o with allocation_size
CoversUnseen(after, o, bytes, allocation_size) ==
    LET n == Len(bytes)
        unseen == Unseen(o, n)
    IN  /\ Covered(after.data) = Covered(data) \cup unseen
        /\ unseen \cap Covered(data) = {}
        /\ \A k \in unseen :
               /\ Cardinality({i \in DOMAIN after.data :
                                  Contains(after.data[i], k)}) = 1
               /\ \A i \in DOMAIN after.data :
                      Contains(after.data[i], k) =>
                          after.data[i].bytes[k - after.data[i].offset + 1]
                              = bytes[k - o + 1]
        /\ after.buffered = buffered + Cardinality(unseen)
        /\ after.recvd = recvd \cup (o .. (o + n - 1))
        /\ after.state = state
        /\ after.bytes_read = bytes_read
        /\ unseen = {} => after = Self
        /\ IF Defragments(o, n, allocation_size)
           THEN /\ after.allocated = after.buffered
                /\ \A i \in DOMAIN after.data : ~Wasteful(after.data[i])
           ELSE /\ Gains(after.data, Added(o, bytes, allocation_size))
                /\ after.allocated
                       = allocated + allocation_size
                                         * Cardinality(Runs(unseen))

\* C18 amended: in Unordered mode, after insert the heap holds, besides the
\* offsets it held, exactly the offsets of the fragment that recvd did not
\* hold, each once and with the byte inserted for it; buffered has grown by
\* their number and recvd holds the whole range; nothing changes when there
\* is none.  Unless the call ends in a defragmentation, the heap has gained
\* one Buffer per run of those offsets, with the caller's allocation_size,
\* and allocated has grown by allocation_size for each; after a
\* defragmentation every Buffer is tight and allocated equals buffered.
UnorderedInsertCovers ==
    state = Unordered =>
        \A v \in {0, 1}, o \in Offsets, n \in 0 .. StreamLen, slack \in Slacks,
           tie \in Ties :
            Tried(v, o, n, slack) =>
                \A after \in {insert(Self, o, Payload(v, o, n), n + slack, tie)} :
                    CoversUnseen(after, o, Payload(v, o, n), n + slack)

\* In unordered mode the heap holds offset 1 and offsets 0 and 2 are unseen:
\* a tight fragment over all three adds two Buffers around what is held, and
\* the same fragment as a slice of a larger allocation ends in a
\* defragmentation
UnorderedInsertCoversWitness ==
    /\ state = Unordered
    /\ data # <<>>
    /\ 1 \in Covered(data)
    /\ Unseen(0, 3) = {0, 2}
    /\ Len(insert(Self, 0, Payload(1, 0, 3), 3, TRUE).data) = Len(data) + 2
    /\ ~Defragments(0, 3, 3)
    /\ Defragments(0, 3, 3 + 2048)

\* The Buffers of the heap `after` that the heap data does not hold
Gained(after) ==
    {b \in {after[i] : i \in DOMAIN after} : Count(after, b) > Count(data, b)}

\* The fragment of n bytes at o straddles the read mark
Straddles(o, n) == o < bytes_read /\ o + n > bytes_read

\* What is left of bytes inserted at o past the read mark
Suffix(o, bytes) == advance(bytes, bytes_read - o)

\* C19 as stated: in Ordered mode, an insert that ends at or before
\* bytes_read changes nothing; one that straddles bytes_read adds one Buffer
\* at offset bytes_read with the bytes past it, adds their number to
\* buffered and the whole allocation_size to allocated; no insert adds a
\* Buffer with offset < bytes_read.
OrderedInsertAtMark ==
    state = Ordered =>
        \A v \in {0, 1}, o \in Offsets, n \in 0 .. StreamLen, slack \in Slacks,
           tie \in Ties :
            Tried(v, o, n, slack) =>
                \A after \in {insert(Self, o, Payload(v, o, n), n + slack, tie)} :
                    LET suffix == Suffix(o, Payload(v, o, n))
                    IN  /\ o + n <= bytes_read => after = Self
                        /\ Straddles(o, n) =>
                               /\ Gains(after.data,
                                        {Buffer(bytes_read, suffix, Len(suffix),
                                                n + slack)})
                               /\ after.buffered = buffered + Len(suffix)
                               /\ after.allocated = allocated + n + slack
                        /\ \A b \in Gained(after.data) : b.offset >= bytes_read

\* Whether an ordered insert that pushes size bytes with allocation_size
\* ends in a defragmentation
DefragmentsOrdered(size, allocation_size) ==
    over_allocated([Self EXCEPT !.buffered = @ + size,
                                !.allocated = @ + allocation_size])

\* What C19 amended says of the assembler `after` an ordered insert of
\* bytes at o with allocation_size
KeepsMark(after, o, bytes, allocation_size) ==
    LET n == Len(bytes)
        suffix == Suffix(o, bytes)
        kept == IF o < bytes_read THEN suffix ELSE bytes
    IN  /\ o + n <= bytes_read => after = Self
        /\ Straddles(o, n) =>
               /\ after.buffered = buffered + Len(suffix)
               /\ Covered(after.data)
                      = Covered(data) \cup (bytes_read .. (o + n - 1))
               /\ after.bytes_read = bytes_read
               /\ after.state = state
               /\ IF DefragmentsOrdered(Len(suffix), allocation_size)
                  THEN /\ after.allocated = after.buffered
                       /\ \A i \in DOMAIN after.data : ~Wasteful(after.data[i])
                  ELSE /\ Gains(after.data,
                                {Buffer(bytes_read, suffix, Len(suffix),
                                        allocation_size)})
                       /\ after.allocated = allocated + allocation_size
        /\ (o + n > bytes_read
              /\ ~DefragmentsOrdered(Len(kept), allocation_size))
               => \A b \in Gained(after.data) : b.offset >= bytes_read

\* C19 amended: in Ordered mode, an insert that ends at or before bytes_read
\* changes nothing; one that straddles bytes_read adds the offsets from
\* bytes_read to its end to those the heap holds and the number of its bytes
\* past bytes_read to buffered.  Unless the call ends in a defragmentation,
\* it adds one Buffer at offset bytes_read with the bytes past it and the
\* whole allocation_size, which is added to allocated, and no insert adds a
\* Buffer with offset < bytes_read; after a defragmentation every Buffer is
\* tight and allocated equals buffered.
OrderedInsertKeepsMark ==
    state = Ordered =>
        \A v \in {0, 1}, o \in Offsets, n \in 0 .. StreamLen, slack \in Slacks,
           tie \in Ties :
            Tried(v, o, n, slack) =>
                \A after \in {insert(Self, o, Payload(v, o, n), n + slack, tie)} :
                    KeepsMark(after, o, Payload(v, o, n), n + slack)

\* In ordered mode, with bytes read and a Buffer held: a tight fragment
\* that starts the stream and reaches past the read mark is stored from the
\* mark on, a fragment below the mark is dropped, and the straddling
\* fragment as a slice of a larger allocation ends in a defragmentation
OrderedInsertKeepsMarkWitness ==
    /\ state = Ordered
    /\ bytes_read = 1
    /\ data # <<>>
    /\ LET after == insert(Self, 0, Payload(0, 0, 3), 3, TRUE)
       IN  /\ Len(after.data) = Len(data) + 1
           /\ \E i \in DOMAIN after.data :
                  after.data[i] = Buffer(1, Payload(0, 1, 2), 2, 3)
    /\ insert(Self, 0, Payload(0, 0, 1), 1, TRUE) = Self
    /\ ~DefragmentsOrdered(2, 3)
    /\ DefragmentsOrdered(2, 3 + 2048)

\* The Buffers of a heap that are tight, and those that hold bytes
TightOnes(d) == SelectSeq(d, LAMBDA b : ~Wasteful(b))
NonEmpty(d) == SelectSeq(d, LAMBDA b : Len(b.bytes) > 0)

\* The offsets the wasteful Buffers of the heap hold
CoveredWasteful ==
    UNION {Range(data[i]) : i \in {j \in DOMAIN data : Wasteful(data[j])}}

\* How many Buffers of the heap d hold exactly the offsets r[1] .. r[2]
CountSpan(d, r) == Cardinality({i \in DOMAIN d : Range(d[i]) = r[1] .. r[2]})

\* What C20 says of the assembler `after` defragment
Merged(after) ==
    /\ \A i \in DOMAIN data :
           ~Wasteful(data[i]) =>
               Count(after.data, data[i]) >= Count(data, data[i])
    /\ \A r \in Runs(CoveredWasteful) :
           CountSpan(after.data, r) = CountSpan(TightOnes(data), r) + 1
    /\ Len(NonEmpty(after.data))
           = Len(NonEmpty(TightOnes(data)))
                 + Cardinality(Runs(CoveredWasteful))
    /\ \A i \in DOMAIN after.data :
           after.data[i].allocation_size = after.data[i].size

\* C20: defragment, on a heap that is not empty, keeps every tight Buffer
\* as it is, replaces the wasteful Buffers of every run of offsets they
\* hold, overlapping or end to start, by one Buffer that holds the run,
\* keeps runs apart that a gap separates, and leaves every Buffer with
\* allocation_size = size.
DefragmentationMerging ==
    data # <<>> =>
        \A tie \in Ties :
            \A after \in {defragment(Self, tie)} : Merged(after)

\* The heap holds a tight Buffer and two wasteful ones that lie end to
\* start or overlap; defragment leaves the tight one and one Buffer for both
DefragmentationMergingWitness ==
    /\ Len(data) = 3
    /\ Cardinality({i \in DOMAIN data : Wasteful(data[i])}) = 2
    /\ Cardinality(Runs(CoveredWasteful)) = 1
    /\ \A i \in DOMAIN data : Range(data[i]) # CoveredWasteful
    /\ \E i \in DOMAIN data : ~Wasteful(data[i]) /\ Len(data[i].bytes) > 0
    /\ Len(NonEmpty(defragment(Self, TRUE).data)) = 2

\* C21: in every reachable state, a read in the mode in effect that is
\* called with max_length >= 1 and returns a chunk returns at least one byte.
NoEmptyChunks ==
    \A max_length \in MaxLengths \ {0}, tie \in Ties :
        \A r \in {read(Self, max_length, state = Ordered, tie)} :
            r.ret # None => Len(r.ret[1].bytes) > 0

\* C22: after ensure_ordering(false) on an assembler used in Ordered mode,
\* no unordered read returns a chunk that holds an offset some read, ordered
\* or unordered, has returned before.
NoRedelivery ==
    [][(Returned' /\ ~last'.ordered /\ state = Unordered)
           => Range(TheChunk') \cap out = {}]_vars

====
